---- MODULE Spec2Model ----
(***************************************************************************)
(* Model of src/components.rs: the simulated digital pins of drogue-wasm.  *)
(*                                                                         *)
(* InputPin  : an AtomicBool level and an embassy Signal<()>; a DOM click  *)
(*             closure toggles the level and signals.                      *)
(* OutputPin : an AtomicBool level, an element id and a transform, both    *)
(*             MaybeUninit until configure(); set_value() renders the      *)
(*             transform's OutputVisual into the element's inner HTML.     *)
(* The single application task waits on the pin through SignalFuture.      *)
(***************************************************************************)
EXTENDS Integers, Sequences, FiniteSets

\* ------------------------------------------------------------------ bounds
MaxFired == 4       \* click-closure invocations explored
MaxBind == 2        \* InputPin::configure calls explored
MaxConfigure == 2   \* OutputPin::configure calls explored
PinsMaxFired == 2   \* clicks start below this count when both pins run

\* --------------------------------------------------------------- the world
Present == {"button", "led"}            \* element ids the document holds
ElementIds == Present \cup {"missing"}  \* ids handed to the configure calls

VARIABLES
    InputPin,     \* [high, signal]: the fields of struct InputPin
    OutputPin,    \* [high, element, transform]: the fields of struct OutputPin
    listeners,    \* element id -> number of click closures registered on it
    document,     \* element id -> inner HTML, for the elements that exist
    fut,          \* TRUE while the task holds a SignalFuture of the pin
    runnable,     \* TRUE while the executor has the task queued for a poll
    panicked,     \* TRUE once an expect()/unwrap() has aborted the task
    last,         \* outcome of the latest future: its latest poll, or Cancelled
    first,        \* result of the first poll of the current future
    fired,        \* history: click-closure invocations so far
    notified,     \* history: the closure ran since the latest wait()
    stale,        \* history: a value was pending when the latest wait() ran
    early,        \* history: the closure ran between wait() and the first poll
    unread,       \* history: closure invocations since the latest poll/reset
    kAtPoll,      \* history: the value of unread seen by the latest poll
    afterDrop,    \* history: the future before the current one was dropped
    levelAtWait,  \* history: the level when the latest wait() was called
    sinceWait,    \* history: closure invocations since the latest wait()
    configs,      \* history: OutputPin::configure calls so far
    outOp,        \* history: the latest OutputPin operation
    wrote,        \* history: <<level>> handed to the latest set_value
    prev,         \* history: <<level>> handed to the set_value before that
    seen          \* history: level -> payloads pushed for it since configure

inVars == <<InputPin, listeners, fut, runnable, last, first, fired, notified,
            stale, early, unread, kAtPoll, afterDrop, levelAtWait, sinceWait>>
outVars == <<OutputPin, configs, outOp, wrote, prev, seen>>
vars == <<inVars, outVars, document, panicked>>

\* ------------------------------------------- embassy::channel::signal::Signal
\* State of a Signal<()>: None, Waiting(waker) or Signaled(()).  One task, so
\* the waker is that task's.
SignalState == {"None", "Waiting", "Signaled"}

\* Signal::new
Signal_new == "None"

\* Signal::reset: clears a pending value and a registered waker.
Signal_reset(s) == "None"

\* Signal::signal: stores the value; wake is TRUE iff a waker was registered.
Signal_signal(s) == [state |-> "Signaled", wake |-> (s = "Waiting")]

\* Signal::poll_wait: Ready takes the value; otherwise registers the waker.
Signal_poll_wait(s) ==
    CASE s = "None"     -> [state |-> "Waiting", poll |-> "Pending"]
      [] s = "Waiting"  -> [state |-> "Waiting", poll |-> "Pending"]
      [] s = "Signaled" -> [state |-> "None",    poll |-> "Ready"]

\* ------------------------------------------------------------ SignalFuture
\* A poll that reports the value without taking it out of the signal.
SignalFuture_poll_peek(s) ==
    IF s = "Signaled" THEN [state |-> "Signaled", poll |-> "Ready"]
                      ELSE Signal_poll_wait(s)

\* A poll that registers the waker without looking at the pending value.
SignalFuture_poll_lossy(s) == [state |-> "Waiting", poll |-> "Pending"]

\* SignalFuture::poll: self.signal.poll_wait(cx)
SignalFuture_poll(s) == Signal_poll_wait(s)

\* --------------------------------------------------------------- InputPin
\* InputPin::new
InputPin_new == [high |-> TRUE, signal |-> Signal_new]

\* InputPin::get_value
get_value == InputPin.high

\* WebButton::is_high: Ok(self.pin.get_value())
is_high == get_value

\* WebButton::is_low: Ok(self.pin.get_value())
is_low == get_value

\* A closure that toggles the level and forgets to signal.
click_closure_silent(p) ==
    [pin |-> [p EXCEPT !.high = ~p.high], wake |-> FALSE]

\* A closure that signals and leaves the level alone.
click_closure_stuck(p) ==
    [pin |-> [p EXCEPT !.signal = Signal_signal(p.signal).state],
     wake |-> Signal_signal(p.signal).wake]

\* The closure of InputPin::configure, run once on pin value p.
click_closure(p) ==
    LET toggled == IF p.high THEN [p EXCEPT !.high = FALSE]
                             ELSE [p EXCEPT !.high = TRUE]
        sig == Signal_signal(toggled.signal)
    IN  [pin |-> [toggled EXCEPT !.signal = sig.state], wake |-> sig.wake]

\* n invocations of the closure in a row (one per registered listener).
RECURSIVE run_closures(_, _)
run_closures(p, n) ==
    IF n = 0 THEN [pin |-> p, wake |-> FALSE]
    ELSE LET r == click_closure(p)
             rest == run_closures(r.pin, n - 1)
         IN  [pin |-> rest.pin, wake |-> r.wake \/ rest.wake]

\* InputPin::wait without the reset.
wait_noreset(s) == s

\* InputPin::wait: self.signal.reset(), then SignalFuture::new(&self.signal).
wait_signal(s) == Signal_reset(s)

\* ------------------------------------------------- LedColor, OutputVisual
LedColor == {"Red", "Green", "Yellow", "Orange", "Blue"}

\* impl Add<LedColor> for bool: OutputVisual::Led(rhs, self)
bool_add(self, rhs) == [kind |-> "Led", color |-> rhs, state |-> self]

\* Add<bool> for LedColor that negates the state.
LedColor_add_negated(self, rhs) ==
    [kind |-> "Led", color |-> self, state |-> ~rhs]

\* impl Add<bool> for LedColor: OutputVisual::Led(self, rhs)
LedColor_add(self, rhs) == [kind |-> "Led", color |-> self, state |-> rhs]

\* impl From<&'static str> for OutputVisual
from_str(s) == [kind |-> "String", s |-> s]

\* From<bool> with the two texts exchanged.
from_bool_inverted(v) == IF v THEN [kind |-> "String", s |-> "OFF"]
                              ELSE [kind |-> "String", s |-> "ON"]

\* impl From<bool> for OutputVisual
from_bool(v) == IF v THEN [kind |-> "String", s |-> "ON"]
                     ELSE [kind |-> "String", s |-> "OFF"]

\* The literals of to_led!.
SvgOpen ==
    "<svg height=\"50\" width=\"50\"><circle cx=\"25\" cy=\"25\" r=\"10\" fill=\""
SvgStroke == "\" stroke-width=\"3\" stroke=\""
SvgCloseOn == "\"/></svg>"
SvgCloseOff == "\" /></svg>"

\* to_led! that renders both states with the off markup.
to_led_dark(state, on, off) == SvgOpen \o off \o SvgCloseOff

\* to_led! with the shades of the lit state exchanged.
to_led_swapped(state, on, off) ==
    IF state THEN SvgOpen \o off \o SvgStroke \o on \o SvgCloseOn
             ELSE SvgOpen \o off \o SvgCloseOff

\* to_led!($state, $on, $off): concat! of the literals around the shades.
to_led(state, on, off) ==
    IF state THEN SvgOpen \o on \o SvgStroke \o off \o SvgCloseOn
             ELSE SvgOpen \o off \o SvgCloseOff

\* The shade literals of the match in as_ref.
OnShade(c) ==
    CASE c = "Red"    -> "red"
      [] c = "Green"  -> "lightgreen"
      [] c = "Yellow" -> "yellow"
      [] c = "Orange" -> "orange"
      [] c = "Blue"   -> "lightblue"

OffShade(c) ==
    CASE c = "Red"    -> "darkred"
      [] c = "Green"  -> "darkgreen"
      [] c = "Yellow" -> "#94a000"
      [] c = "Orange" -> "#a97200"
      [] c = "Blue"   -> "darkblue"

\* impl AsRef<str> for OutputVisual
as_ref(v) ==
    IF v.kind = "String" THEN v.s
    ELSE to_led(v.state, OnShade(v.color), OffShade(v.color))

\* The transforms handed to OutputPin::configure: |state| state + color and
\* |state| color + state for each color, |state| state.into(), and a constant
\* label.
ColorFirst ==
    {"RedFirst", "GreenFirst", "YellowFirst", "OrangeFirst", "BlueFirst"}

ColorOf(t) ==
    CASE t = "RedFirst"    -> "Red"
      [] t = "GreenFirst"  -> "Green"
      [] t = "YellowFirst" -> "Yellow"
      [] t = "OrangeFirst" -> "Orange"
      [] t = "BlueFirst"   -> "Blue"

Transforms == LedColor \cup ColorFirst \cup {"bool", "label"}

transform_call(t, high) ==
    CASE t \in LedColor   -> bool_add(high, t)
      [] t \in ColorFirst -> LedColor_add(ColorOf(t), high)
      [] t = "bool"       -> from_bool(high)
      [] t = "label"      -> from_str("LED")

\* -------------------------------------------------------------- OutputPin
Uninit == "uninit"      \* MaybeUninit::uninit()

\* OutputPin::new
OutputPin_new == [high |-> FALSE, element |-> Uninit, transform |-> Uninit]

\* set_value that pushes the text into every element of the document.
write_element_all(pin, doc, element, transform, high) ==
    LET stored == [pin EXCEPT !.high = high]
        output == transform_call(transform, high)
    IN  IF element \notin DOMAIN doc
        THEN [pin |-> stored, document |-> doc, panicked |-> TRUE,
              pushed |-> <<>>]
        ELSE [pin |-> stored,
              document |-> [e \in DOMAIN doc |-> as_ref(output)],
              panicked |-> FALSE, pushed |-> <<as_ref(output)>>]

\* set_value that skips the update when the element is not found.
write_element_skip(pin, doc, element, transform, high) ==
    LET stored == [pin EXCEPT !.high = high]
        output == transform_call(transform, high)
    IN  IF element \notin DOMAIN doc
        THEN [pin |-> stored, document |-> doc, panicked |-> FALSE,
              pushed |-> <<>>]
        ELSE [pin |-> stored,
              document |-> [doc EXCEPT ![element] = as_ref(output)],
              panicked |-> FALSE, pushed |-> <<as_ref(output)>>]

\* The body of set_value once element and transform are read: store the
\* level, look the element up (unwrap), render, set_inner_html.  pushed is
\* the text handed to set_inner_html, if the call got that far.
write_element(pin, doc, element, transform, high) ==
    LET stored == [pin EXCEPT !.high = high]
        output == transform_call(transform, high)
    IN  IF element \notin DOMAIN doc
        THEN [pin |-> stored, document |-> doc, panicked |-> TRUE,
              pushed |-> <<>>]
        ELSE [pin |-> stored,
              document |-> [doc EXCEPT ![element] = as_ref(output)],
              panicked |-> FALSE, pushed |-> <<as_ref(output)>>]

\* set_value that renders without storing the level.
set_value_nostore(pin, doc, high) ==
    {[write_element(pin, doc, pin.element, pin.transform, high)
        EXCEPT !.pin = pin]}

\* set_value that renders the level stored before the call.
set_value_cached(pin, doc, high) ==
    {[write_element(pin, doc, pin.element, pin.transform, pin.high)
        EXCEPT !.pin = [pin EXCEPT !.high = high]]}

\* OutputPin::set_value: the outcomes of one call.  Before configure() the
\* element and transform read are uninitialised memory: any id, any function
\* pointer, or a trap, with the level stored or not.
set_value(pin, doc, high) ==
    IF pin.element # Uninit
    THEN {write_element(pin, doc, pin.element, pin.transform, high)}
    ELSE {write_element(pin, doc, e, t, high) :
              e \in DOMAIN doc \cup {"missing"}, t \in Transforms}
         \cup {[pin |-> q, document |-> doc, panicked |-> TRUE,
                pushed |-> <<>>] : q \in {pin, [pin EXCEPT !.high = high]}}

\* configure() that binds and leaves the first write to the caller.
configure_nowrite(pin, doc, element, transform) ==
    {[pin |-> [pin EXCEPT !.element = element, !.transform = transform],
      document |-> doc, panicked |-> FALSE, pushed |-> <<>>]}

\* OutputPin::configure: write element and transform, then set_value(false).
configure(pin, doc, element, transform) ==
    set_value([pin EXCEPT !.element = element, !.transform = transform],
              doc, FALSE)

\* ------------------------------------------------------------------ Init
Init ==
    /\ InputPin = InputPin_new
    /\ listeners = [e \in Present |-> 0]
    /\ document = [e \in Present |-> ""]
    /\ fut = FALSE
    /\ runnable = FALSE
    /\ panicked = FALSE
    /\ last = "none"
    /\ first = "none"
    /\ fired = 0
    /\ notified = FALSE
    /\ stale = FALSE
    /\ early = FALSE
    /\ unread = 0
    /\ kAtPoll = 0
    /\ afterDrop = FALSE
    /\ levelAtWait = InputPin_new.high
    /\ sinceWait = 0
    /\ OutputPin = OutputPin_new
    /\ configs = 0
    /\ outOp = "none"
    /\ wrote = <<>>
    /\ prev = <<>>
    /\ seen = [l \in BOOLEAN |-> {}]

\* ----------------------------------------------------------------- actions
Bound == LET RECURSIVE Sum(_)
             Sum(S) == IF S = {} THEN 0
                       ELSE LET e == CHOOSE x \in S : TRUE
                            IN  listeners[e] + Sum(S \ {e})
         IN  Sum(DOMAIN listeners)

\* InputPin::configure(element): get_element_by_id(element).expect(..), then
\* add_event_listener_with_callback("click", cb).
InputPin_configure(element) ==
    /\ ~panicked
    /\ Bound < MaxBind
    /\ IF element \in DOMAIN document
       THEN /\ listeners' = [listeners EXCEPT ![element] = @ + 1]
            /\ UNCHANGED panicked
       ELSE /\ panicked' = TRUE
            /\ UNCHANGED listeners
    /\ UNCHANGED <<InputPin, document, fut, runnable, last, first, fired,
                   notified, stale, early, unread, kAtPoll, afterDrop,
                   levelAtWait, sinceWait>>
    /\ UNCHANGED outVars

\* A click on an element: the browser runs every closure registered on it.
Click(element) ==
    /\ element \in DOMAIN document
    /\ listeners[element] > 0
    /\ fired + listeners[element] <= MaxFired
    /\ LET r == run_closures(InputPin, listeners[element])
       IN  /\ InputPin' = r.pin
           /\ runnable' = (runnable \/ r.wake)
    /\ fired' = fired + listeners[element]
    /\ unread' = unread + listeners[element]
    /\ notified' = TRUE
    /\ early' = (early \/ (fut /\ first = "none"))
    /\ sinceWait' = sinceWait + listeners[element]
    /\ UNCHANGED <<listeners, document, fut, panicked, last, first, stale,
                   kAtPoll, afterDrop, levelAtWait>>
    /\ UNCHANGED outVars

\* WebButton::wait_for_any_edge -> InputPin::wait; the task then awaits the
\* future, so it is queued for its first poll.
Wait ==
    /\ ~panicked
    /\ ~fut
    /\ InputPin' = [InputPin EXCEPT !.signal = wait_signal(@)]
    /\ fut' = TRUE
    /\ runnable' = TRUE
    /\ last' = "none"
    /\ first' = "none"
    /\ notified' = FALSE
    /\ stale' = (InputPin.signal = "Signaled")
    /\ early' = FALSE
    /\ unread' = 0
    /\ kAtPoll' = 0
    /\ afterDrop' = (last = "Cancelled")
    /\ levelAtWait' = InputPin.high
    /\ sinceWait' = 0
    /\ UNCHANGED <<listeners, document, panicked, fired>>
    /\ UNCHANGED outVars

\* The executor polls the task's SignalFuture; on Ready the await completes
\* and the future is gone.
Poll ==
    /\ ~panicked
    /\ fut
    /\ LET r == SignalFuture_poll(InputPin.signal)
       IN  /\ InputPin' = [InputPin EXCEPT !.signal = r.state]
           /\ last' = r.poll
           /\ first' = IF first = "none" THEN r.poll ELSE first
           /\ fut' = (r.poll # "Ready")
    /\ runnable' = FALSE
    /\ kAtPoll' = unread
    /\ unread' = 0
    /\ UNCHANGED <<listeners, document, panicked, fired, notified, stale,
                   early, afterDrop, levelAtWait, sinceWait>>
    /\ UNCHANGED outVars

\* The task drops its SignalFuture before completion (a cancelled wait).
Drop ==
    /\ ~panicked
    /\ fut
    /\ fut' = FALSE
    /\ last' = "Cancelled"
    /\ UNCHANGED <<InputPin, listeners, document, runnable, panicked,
                   first, fired, notified, stale, early, unread, kAtPoll,
                   afterDrop, levelAtWait, sinceWait>>
    /\ UNCHANGED outVars

\* One OutputPin operation with outcome o; level is the level handed to
\* set_value.
Outcome(o, op, level) ==
    /\ OutputPin' = o.pin
    /\ document' = o.document
    /\ panicked' = o.panicked
    /\ outOp' = op
    /\ prev' = IF op = "configure" THEN <<>> ELSE wrote
    /\ wrote' = <<level>>
    /\ seen' = LET base == IF op = "configure" THEN [l \in BOOLEAN |-> {}]
                                               ELSE seen
               IN  IF o.pin.element = Uninit THEN base
                   ELSE [base EXCEPT ![level] =
                            @ \cup {o.pushed[i] : i \in DOMAIN o.pushed}]

\* OutputPin::configure(element, transform)
OutputPin_configure(element, transform) ==
    /\ ~panicked
    /\ configs < MaxConfigure
    /\ configs' = configs + 1
    /\ \E o \in configure(OutputPin, document, element, transform) :
           Outcome(o, "configure", FALSE)
    /\ UNCHANGED inVars

\* WebLed::set_high: self.pin.set_value(true)
set_high ==
    /\ ~panicked
    /\ \E o \in set_value(OutputPin, document, TRUE) : Outcome(o, "write", TRUE)
    /\ UNCHANGED <<inVars, configs>>

\* WebLed::set_low: self.pin.set_value(false)
set_low ==
    /\ ~panicked
    /\ \E o \in set_value(OutputPin, document, FALSE) :
           Outcome(o, "write", FALSE)
    /\ UNCHANGED <<inVars, configs>>

\* The page removes an element from the document.
RemoveElement(element) ==
    /\ element \in DOMAIN document
    /\ document' = [e \in DOMAIN document \ {element} |-> document[e]]
    /\ UNCHANGED <<inVars, outVars, panicked>>

NextOut ==
    \/ \E e \in ElementIds, t \in Transforms : OutputPin_configure(e, t)
    \/ set_high
    \/ set_low
    \/ \E e \in ElementIds : RemoveElement(e)

OutSpec == Init /\ [][NextOut]_vars

\* Both pins in one program: the button task and the led writes interleave.
\* The input pin is bound to the button (or to an id the page lacks), the
\* output pin to the led (or to such an id), with one indicator transform or
\* the boolean one, before it is written.
PinsTransforms == {"Green", "bool"}
PinsButton == {"button", "missing"}
PinsLed == {"led", "missing"}

PinsNext ==
    \/ \E e \in PinsButton : InputPin_configure(e)
    \/ \E e \in ElementIds : fired < PinsMaxFired /\ Click(e)
    \/ Wait
    \/ Poll
    \/ Drop
    \/ \E e \in PinsLed, t \in PinsTransforms : OutputPin_configure(e, t)
    \/ OutputPin.element # Uninit /\ set_high
    \/ OutputPin.element # Uninit /\ set_low

PinsSpec == Init /\ [][PinsNext]_vars

Next ==
    \/ \E e \in ElementIds : InputPin_configure(e)
    \/ \E e \in ElementIds : Click(e)
    \/ Wait
    \/ Poll
    \/ Drop

Spec == Init /\ [][Next]_vars

\* The executor polls a queued task; nothing else is assumed.
LiveSpec == Spec /\ WF_vars(runnable /\ Poll)

TypeOK ==
    /\ InputPin \in [high : BOOLEAN, signal : SignalState]
    /\ fut \in BOOLEAN /\ runnable \in BOOLEAN /\ panicked \in BOOLEAN
    /\ last \in {"none", "Pending", "Ready", "Cancelled"}
    /\ first \in {"none", "Pending", "Ready"}
    /\ fired \in 0..MaxFired
    /\ OutputPin \in [high : BOOLEAN, element : ElementIds \cup {Uninit},
                      transform : Transforms \cup {Uninit}]
    /\ wrote \in {<<>>, <<TRUE>>, <<FALSE>>}
    /\ prev \in {<<>>, <<TRUE>>, <<FALSE>>}

\* ================================================================= claims

\* C1: the pin starts at level true and, however waits and polls interleave
\* with the clicks, read() after N closure invocations is true XOR (N mod 2):
\* true for even N, false for odd N.
C1_ReadIsParity == get_value = (fired % 2 = 0)

C1_Witness ==
    /\ fired = 3 /\ get_value = FALSE /\ first = "Pending" /\ last = "Ready"

\* C2: a future returned by wait() does not complete unless the closure ran
\* after the reset that wait() performed: every poll before that is Pending.
C2_NoCompletionWithoutNotify == ~notified => last # "Ready"

C2_Witness == fut /\ ~notified /\ last = "Pending" /\ fired > 0

\* C3: a click after the latest reset, while the future is alive, leaves the
\* task queued for a poll with the value pending, and under fair polling of
\* queued tasks the wait resolves (unless the task cancels it or has aborted).
C3_NotifyObserved ==
    /\ [](fut /\ notified => runnable /\ InputPin.signal = "Signaled")
    /\ (fut /\ notified) ~> (last \in {"Ready", "Cancelled"} \/ panicked)

C3_Witness == ~fut /\ notified /\ last = "Ready" /\ first = "Pending"

\* C4: a value signalled before wait() and never consumed is discarded by
\* that wait(): it is no longer pending and the future does not resolve on
\* it; only a click after the call resolves the future.
C4_StaleDiscarded ==
    stale /\ ~notified => last # "Ready" /\ InputPin.signal # "Signaled"

C4_Witness == stale /\ ~notified /\ fut /\ last = "Pending"

\* C5 (as claimed): a click with no active waiter, still pending when the
\* next wait() is called, resolves that wait on its first poll.
C5_PendingSurvivesWait == stale /\ first # "none" => first = "Ready"

\* C5 (amended): a click with no registered waiter that fires after wait()
\* returned and before the future's first poll stays pending, and that first
\* poll resolves the wait.
C5_NotifyBeforeFirstPoll ==
    early => /\ (fut /\ first = "none" => InputPin.signal = "Signaled")
             /\ (first # "none" => first = "Ready")

C5_Witness == early /\ first = "Ready" /\ ~fut

\* C6: the signal holds one pending value whatever the number of clicks: a
\* value is pending iff the closure ran since the latest poll or reset, a
\* poll completes iff it saw k >= 1 clicks, and after a completion nothing
\* is pending until the next click.
C6_SingleSlot ==
    /\ InputPin.signal \in SignalState
    /\ (InputPin.signal = "Signaled") = (unread >= 1)
    /\ (last = "Ready") = (kAtPoll >= 1)
    /\ (last = "Ready" /\ unread = 0 => InputPin.signal = "None")

C6_Witness ==
    kAtPoll >= 2 /\ last = "Ready" /\ unread = 0 /\ InputPin.signal = "None"

\* ---------------------------------------------------- OutputPin claims
configured == OutputPin.element # Uninit

\* The text the bound transform renders for a level.
Rendered(high) == as_ref(transform_call(OutputPin.transform, high))

\* The value of attribute name in a markup text: <<value>>, or <<>> when the
\* text has no such attribute.
AttrValue(text, name) ==
    LET pat == " " \o name \o "=\""
        n == Len(text)
        m == Len(pat)
        starts == {i \in 1..(n - m + 1) : SubSeq(text, i, i + m - 1) = pat}
    IN  IF starts = {} THEN <<>>
        ELSE LET i == CHOOSE x \in starts : \A y \in starts : x <= y
                 b == i + m
                 quotes == {j \in b..n : SubSeq(text, j, j) = "\""}
                 e == CHOOSE x \in quotes : \A y \in quotes : x <= y
             IN  <<SubSeq(text, b, e - 1)>>

\* C7: once configured, after any sequence of writes (set_high, set_low, the
\* write inside configure) the stored level is the level of the latest write
\* and the bound element, while it exists, shows the text of the transform
\* applied to that level.
C7_LevelAndContentFollowWrite ==
    configured =>
        /\ wrote = <<OutputPin.high>>
        /\ (OutputPin.element \in DOMAIN document =>
                document[OutputPin.element] = Rendered(OutputPin.high))

C7_Witness ==
    /\ configured /\ outOp = "write" /\ ~panicked
    /\ prev = <<FALSE>> /\ wrote = <<TRUE>> /\ OutputPin.transform = "Green"
    /\ document[OutputPin.element] = Rendered(TRUE)

\* C8: configure() performs an initial write of false: in the state a
\* configure call returns to, the stored level is false and the bound element
\* shows the text of the transform applied to false.
C8_ConfigureWritesFalse ==
    [][configs' # configs /\ ~panicked' =>
          /\ OutputPin'.high = FALSE
          /\ document'[OutputPin'.element] =
                 as_ref(transform_call(OutputPin'.transform, FALSE))]_vars

C8_Witness ==
    /\ configs = 2 /\ outOp = "configure" /\ ~panicked
    /\ OutputPin.high = FALSE /\ OutputPin.transform = "Green"
    /\ document[OutputPin.element] = Rendered(FALSE)

\* C9: with a boolean-to-indicator transform of any color, or the bare
\* boolean one, every write of a level pushes the same payload whatever was
\* written before, and the payloads of true and of false differ.
C9_PayloadDependsOnLevelOnly ==
    configured /\ OutputPin.transform \in LedColor \cup {"bool"} =>
        /\ \A l \in BOOLEAN : Cardinality(seen[l]) <= 1
        /\ seen[TRUE] \cap seen[FALSE] = {}

C9_Witness ==
    /\ configured /\ OutputPin.transform \in LedColor /\ ~panicked
    /\ prev = <<FALSE>> /\ wrote = <<FALSE>> /\ outOp = "write"
    /\ seen[TRUE] # {} /\ seen[FALSE] # {}

\* C10: for each color, the indicator pushed for true has fill = the on
\* shade and stroke = the off shade; the one pushed for false has fill = the
\* off shade and no stroke attribute.  For green: darkgreen and no stroke
\* when false, lightgreen with stroke darkgreen when true.
C10_IndicatorRule ==
    \A c \in LedColor :
        (/\ configured /\ OutputPin.transform = c
         /\ OutputPin.element \in DOMAIN document) =>
            LET text == document[OutputPin.element]
                fill == AttrValue(text, "fill")
                stroke == AttrValue(text, "stroke")
            IN  /\ OutputPin.high =>
                       fill = <<OnShade(c)>> /\ stroke = <<OffShade(c)>>
                /\ ~OutputPin.high =>
                       fill = <<OffShade(c)>> /\ stroke = <<>>
                /\ c = "Green" /\ OutputPin.high =>
                       fill = <<"lightgreen">> /\ stroke = <<"darkgreen">>
                /\ c = "Green" /\ ~OutputPin.high =>
                       fill = <<"darkgreen">> /\ stroke = <<>>

C10_Witness ==
    /\ configured /\ OutputPin.transform = "Green" /\ ~panicked
    /\ prev = <<FALSE>> /\ wrote = <<TRUE>>
    /\ AttrValue(document[OutputPin.element], "stroke") = <<"darkgreen">>

\* C11: binding is a one-time operation: a bind on a pin that already has a
\* closure registered fails instead of registering another one, so a click
\* flips the level exactly once.
C11_BindOnceClickTogglesOnce ==
    [][/\ (listeners' # listeners => Bound = 0)
       /\ (fired' # fired => InputPin'.high = ~InputPin.high)]_vars

\* C12: a write on a configured pin whose bound element is not in the
\* document aborts the task and pushes no content; after the abort no pin
\* operation runs again and no element's content changes.
C12_MissingElementIsFatal ==
    [][/\ (/\ ~panicked /\ configured'
           /\ DOMAIN document' = DOMAIN document
           /\ OutputPin'.element \notin DOMAIN document)
          => panicked' /\ document' = document
       /\ panicked =>
              /\ panicked' /\ outVars' = outVars
              /\ \A e \in DOMAIN document' : document'[e] = document[e]]_vars

C12_Witness ==
    /\ panicked /\ configured /\ outOp = "write" /\ wrote = <<TRUE>>
    /\ OutputPin.element \in Present
    /\ OutputPin.element \notin DOMAIN document

\* C13: a write on a pin that has not been configured fails: it aborts and
\* leaves the level (false since new()) and every element's content (empty
\* since the page was loaded) as they were.
C13_PrematureWriteFails ==
    ~configured /\ outOp = "write" =>
        /\ panicked
        /\ OutputPin.high = FALSE
        /\ \A e \in DOMAIN document : document[e] = ""

\* C14: dropping a future before it completes does not break the signal: the
\* future of the next wait() is not ready, with nothing pending, until the
\* closure runs again, is queued for a poll once it has, and under fair
\* polling then resolves (unless it is dropped too or the task has aborted).
C14_WaitAfterDropWorks ==
    /\ [](afterDrop /\ ~notified =>
              last # "Ready" /\ InputPin.signal # "Signaled")
    /\ [](afterDrop /\ fut /\ notified =>
              runnable /\ InputPin.signal = "Signaled")
    /\ (afterDrop /\ fut /\ notified) ~>
           (last \in {"Ready", "Cancelled"} \/ panicked)

C14_Witness ==
    afterDrop /\ stale /\ notified /\ first = "Pending" /\ last = "Ready"

\* C15: is_high() is the current level and is_low() is its negation, so
\* exactly one of the two is true.
C15_HighLowComplement ==
    /\ is_high = InputPin.high
    /\ is_low = ~InputPin.high
    /\ is_high # is_low

\* C16: a bare boolean used as the render result gives the text "ON" for
\* true and "OFF" for false: that is what a pin configured with the boolean
\* transform shows for its level.
C16_BareBoolean ==
    (/\ configured /\ OutputPin.transform = "bool"
     /\ OutputPin.element \in DOMAIN document) =>
        document[OutputPin.element] = IF OutputPin.high THEN "ON" ELSE "OFF"

C16_Witness ==
    /\ configured /\ OutputPin.transform = "bool" /\ ~panicked
    /\ OutputPin.high /\ prev = <<FALSE>> /\ document[OutputPin.element] = "ON"

\* C17: combining a boolean with a color is symmetric: whichever order the
\* bound transform uses, b + c and c + b are the same visual, and the text
\* the element shows is the text of both.
C17_AddIsSymmetric ==
    (/\ configured /\ OutputPin.transform \in LedColor \cup ColorFirst
     /\ OutputPin.element \in DOMAIN document) =>
        LET t == OutputPin.transform
            c == IF t \in LedColor THEN t ELSE ColorOf(t)
            b == OutputPin.high
        IN  /\ bool_add(b, c) = LedColor_add(c, b)
            /\ document[OutputPin.element] = as_ref(bool_add(b, c))
            /\ document[OutputPin.element] = as_ref(LedColor_add(c, b))

C17_Witness ==
    /\ configured /\ OutputPin.transform = "OrangeFirst" /\ ~panicked
    /\ OutputPin.high /\ outOp = "write"
    /\ document[OutputPin.element] = as_ref(bool_add(TRUE, "Orange"))

\* C18 (as claimed, on a pin bound once): whenever a future of wait()
\* resolves, read() differs from the level the pin had when that wait() was
\* called.
C18_ResolvedMeansChanged ==
    [][Bound = 1 /\ fut /\ ~fut' /\ last' = "Ready" =>
          InputPin'.high # levelAtWait']_vars

\* C18 (amended): whenever a future of wait() resolves, the closure has run
\* at least once since that wait() was called, and read() differs from the
\* level at the call exactly when it has run an odd number of times.
C18_ResolvedMeansClicked ==
    [][fut /\ ~fut' /\ last' = "Ready" =>
          /\ sinceWait' >= 1
          /\ (InputPin'.high # levelAtWait') = (sinceWait' % 2 = 1)]_vars

C18_Witness ==
    /\ ~fut /\ last = "Ready" /\ kAtPoll = 2 /\ sinceWait = 2
    /\ get_value = levelAtWait

\* C19: once the output pin is configured, nothing but another configure
\* changes its element and transform; a click changes only the input pin's
\* level and signal (and queues the waiting task); the button task's
\* operations leave the output pin and the document alone; a write leaves the
\* input side alone and changes no element's content but the bound one's.
C19_Frame ==
    [][/\ (configured /\ configs' = configs =>
              /\ OutputPin'.element = OutputPin.element
              /\ OutputPin'.transform = OutputPin.transform)
       /\ (fired' # fired =>
              /\ outVars' = outVars /\ document' = document
              /\ panicked' = panicked /\ listeners' = listeners
              /\ fut' = fut /\ last' = last /\ first' = first)
       /\ (inVars' # inVars =>
              OutputPin' = OutputPin /\ document' = document)
       /\ (/\ configured /\ configs' = configs
           /\ (OutputPin' # OutputPin \/ document' # document)
           /\ DOMAIN document' = DOMAIN document
           => /\ inVars' = inVars
              /\ \A e \in DOMAIN document \ {OutputPin.element} :
                     document'[e] = document[e])]_vars

C19_Witness ==
    /\ configured /\ OutputPin.element = "led" /\ OutputPin.high
    /\ outOp = "write" /\ document["led"] = Rendered(TRUE)
    /\ document["button"] = "" /\ listeners["button"] = 1
    /\ fired = 1 /\ last = "Ready" /\ ~InputPin.high
====
